---------------------------- MODULE Spec2Model ----------------------------
(***************************************************************************)
(* volcago generator: schema extraction from an annotated struct.          *)
(*                                                                         *)
(* The model follows generator.go: newStructGenerator (with hasMetaFields) *)
(* builds a structGenerator for one type tree, parseType walks the tree    *)
(* with parseTypeImpl.  The recursion of parseTypeImpl is kept as an       *)
(* explicit stack of frames; one action is one iteration of its loop (one  *)
(* per branch the iteration can take), or the return of a frame.           *)
(*                                                                         *)
(* Strings are TLA+ strings; dotted paths are built with \o.  A raw struct *)
(* tag is kept in tokenised form (well-formedness flag plus the sequence   *)
(* of key:"name,options" items), a declared type as kind/pointer/slice/    *)
(* base, a Go slice as (backing array, len, cap) over a heap of arrays.    *)
(***************************************************************************)
EXTENDS Integers, Sequences, FiniteSets, TLC

VARIABLES typ, opt, pc, err, param, dupMap, stack, heap, prev

vars == <<typ, opt, pc, err, param, dupMap, stack, heap, prev>>

(***************************************************************************)
(* Bounds of the input universe.                                           *)
(***************************************************************************)
MaxTop == 2
MaxNest == 2

(***************************************************************************)
(* Program constants.                                                      *)
(***************************************************************************)
typeString == "string"
typeBoolMap == "map[string]bool"

-----------------------------------------------------------------------------
(***************************************************************************)
(* Declared types (go-easyparser types.Type) and their Go type names.      *)
(***************************************************************************)
PrimT(base) == [kind |-> "prim", ptr |-> FALSE, slice |-> FALSE, base |-> base, entries |-> {}]
PtrT(base) == [kind |-> "prim", ptr |-> TRUE, slice |-> FALSE, base |-> base, entries |-> {}]
SliceT(base) == [kind |-> "prim", ptr |-> FALSE, slice |-> TRUE, base |-> base, entries |-> {}]
ObjectT(entries) == [kind |-> "object", ptr |-> FALSE, slice |-> FALSE, base |-> "struct", entries |-> entries]
NullableT(entries) == [kind |-> "object", ptr |-> TRUE, slice |-> FALSE, base |-> "struct", entries |-> entries]

\* getGoTypeFromEPTypes: the Go spelling of a declared type.
getGoTypeFromEPTypes(t) ==
    (IF t.ptr THEN "*" ELSE "") \o (IF t.slice THEN "[]" ELSE "") \o t.base

\* isNestedStruct: a record, directly or wrapped in an optional.
isNestedStruct(t) == t.kind = "object"

\* strings.HasPrefix(typeName, "[]") on the structured type.
HasSlicePrefix(t) == ~t.ptr /\ t.slice

-----------------------------------------------------------------------------
(***************************************************************************)
(* Struct tags (fatih/structtag).                                          *)
(***************************************************************************)
Tag(key, name, options) == [Key |-> key, Name |-> name, Options |-> options]
RawTag(tags) == [ok |-> TRUE, tags |-> tags]
NoTag == RawTag(<<>>)
MalformedTag == [ok |-> FALSE, tags |-> <<>>]

\* structtag.Parse: an error for a tag that is not key:"value" items.
Parse(rawTag) == [err |-> ~rawTag.ok, tags |-> rawTag.tags]

\* Tags.Get: the first item with the key, or an error.
Get(tags, key) ==
    LET hits == {i \in DOMAIN tags : tags[i].Key = key}
    IN  IF hits = {} THEN [err |-> TRUE, tag |-> Tag(key, "", <<>>)]
        ELSE [err |-> FALSE, tag |-> tags[CHOOSE i \in hits : \A j \in hits : i <= j]]

RECURSIVE JoinWith(_, _)
\* strings.Join(s, sep)
JoinWith(s, sep) ==
    IF s = <<>> THEN ""
    ELSE IF Len(s) = 1 THEN s[1]
    ELSE s[1] \o sep \o JoinWith(Tail(s), sep)

\* Tag.Value: the name, followed by the options when there are any.
Value(tag) ==
    LET options == JoinWith(tag.Options, ",")
    IN  IF options # "" THEN tag.Name \o "," \o options ELSE tag.Name

\* strings.Split(fsTag.Value(), ",")[0]: a name holds no comma, so the first
\* piece of the value is the name.
FirstPiece(tag) == tag.Name

RECURSIVE RemoveEmpty(_)
\* sliceutil.RemoveEmpty
RemoveEmpty(s) ==
    IF s = <<>> THEN <<>>
    ELSE IF Head(s) = "" THEN RemoveEmpty(Tail(s))
    ELSE <<Head(s)>> \o RemoveEmpty(Tail(s))

\* strings.Join(sliceutil.RemoveEmpty([]string{a, b}), ".")
JoinKey(a, b) == JoinWith(RemoveEmpty(<<a, b>>), ".")

\* strcase.ToLowerCamel on the field names of the input universe.
ToLowerCamel(name) ==
    CASE name = "ID" -> "id"
      [] name = "Key" -> "key"
      [] name = "Indexes" -> "indexes"
      [] name = "Addr" -> "addr"
      [] name = "UserID" -> "userId"
      [] OTHER -> name

isIgnoredField(tags) ==
    LET fsTag == Get(tags, "firestore")
    IN  IF fsTag.err THEN FALSE
        ELSE IF ~Get(tags, "firestore_key").err THEN FALSE
        ELSE FirstPiece(fsTag.tag) = "-"

-----------------------------------------------------------------------------
(***************************************************************************)
(* hasMetaFields: the scan of the top-level entries for the reserved       *)
(* bookkeeping fields.  The loop ranges over the Entries map; every        *)
(* reserved name that is present with its expected type is deleted from    *)
(* expectedFields.                                                         *)
(***************************************************************************)
expectedFields ==
    [n \in {"CreatedAt", "CreatedBy", "UpdatedAt", "UpdatedBy", "DeletedAt", "DeletedBy", "Version"} |->
        CASE n \in {"CreatedAt", "UpdatedAt"} -> "time.Time"
          [] n = "DeletedAt" -> "*time.Time"
          [] n = "Version" -> "int"
          [] OTHER -> "string"]

RECURSIVE metaLoopFlagsMistyped(_, _, _)
\* metaLoop with deleted set as soon as a reserved name is seen, before its
\* type is compared.
metaLoopFlagsMistyped(entries, expected, deleted) ==
    IF entries = {} THEN [expected |-> expected, deleted |-> deleted]
    ELSE LET v == CHOOSE e \in entries : TRUE
             rest == entries \ {v}
         IN  IF v.RawName \notin expected THEN metaLoopFlagsMistyped(rest, expected, deleted)
             ELSE IF getGoTypeFromEPTypes(v.Type) # expectedFields[v.RawName]
                  THEN metaLoopFlagsMistyped(rest, expected, TRUE)
                  ELSE metaLoopFlagsMistyped(rest, expected \ {v.RawName}, TRUE)

RECURSIVE metaLoop(_, _, _)
metaLoop(entries, expected, deleted) ==
    IF entries = {} THEN [expected |-> expected, deleted |-> deleted]
    ELSE LET v == CHOOSE e \in entries : TRUE
             rest == entries \ {v}
         IN  IF v.RawName \notin expected THEN metaLoop(rest, expected, deleted)
             ELSE IF getGoTypeFromEPTypes(v.Type) # expectedFields[v.RawName]
                  THEN metaLoop(rest, expected, deleted)
                  ELSE metaLoop(rest, expected \ {v.RawName}, TRUE)

hasMetaFields(obj) ==
    LET r == metaLoop(obj.entries, DOMAIN expectedFields, FALSE)
    IN  IF r.expected = {} THEN [has |-> TRUE, err |-> FALSE]
        ELSE IF r.deleted THEN [has |-> FALSE, err |-> TRUE]
        ELSE [has |-> FALSE, err |-> FALSE]

-----------------------------------------------------------------------------
(***************************************************************************)
(* Go slices of strings: nullableFields is passed by value (array, len,    *)
(* cap); append writes in place while len < cap and moves to a new array   *)
(* of grown capacity otherwise.                                            *)
(***************************************************************************)
EmptySlice == [arr |-> 0, len |-> 0, cap |-> 0]

SliceRead(h, s) == IF s.len = 0 THEN <<>> ELSE SubSeq(h[s.arr], 1, s.len)

GrowCap(cap, need) == IF need > cap + cap THEN need ELSE cap + cap

SliceAppend(h, s, v) ==
    IF s.len < s.cap
    THEN [heap |-> [h EXCEPT ![s.arr][s.len + 1] = v],
          slice |-> [s EXCEPT !.len = s.len + 1]]
    ELSE LET newcap == GrowCap(s.cap, s.len + 1)
             old == SliceRead(h, s)
             arr == [i \in 1..newcap |-> IF i <= s.len THEN old[i] ELSE IF i = s.len + 1 THEN v ELSE ""]
         IN  [heap |-> Append(h, arr),
              slice |-> [arr |-> Len(h) + 1, len |-> s.len + 1, cap |-> newcap]]

-----------------------------------------------------------------------------
(***************************************************************************)
(* FieldInfo, UniqueInfo and the parts of the generator that live in other *)
(* files of the repository.                                                *)
(***************************************************************************)
FieldInfo(fsTag, field, fieldType, nullableFields) ==
    [FsTag |-> fsTag, Field |-> field, FieldType |-> fieldType,
     IsUnique |-> FALSE, IsDocumentID |-> FALSE, Indexes |-> <<>>,
     NullableFields |-> nullableFields]

UniqueInfo(field, fsTag) == [Field |-> field, FsTag |-> fsTag]

\* validateFirestoreTag: the storage name of the firestore tag, "" without one.
validateFirestoreTag(tags) ==
    LET fsTag == Get(tags, "firestore")
    IN  [err |-> FALSE, tag |-> IF fsTag.err THEN "" ELSE FirstPiece(fsTag.tag)]

\* appendIndexer: attaches the index descriptors of the field and resolves a
\* storage name that was already handed out by a numeric suffix, counted in
\* dupMap in order of first occurrence.  tags = <<>> stands for nil.
appendIndexer(tags, firestoreKey, fieldInfo, dm) ==
    LET idx == Get(tags, "indexer")
        n == IF fieldInfo.FsTag \in DOMAIN dm THEN dm[fieldInfo.FsTag] + 1 ELSE 1
        fs == IF n = 1 THEN fieldInfo.FsTag ELSE fieldInfo.FsTag \o ToString(n)
        indexes == IF idx.err THEN <<>>
                   ELSE <<[Field |-> fieldInfo.Field,
                           Label |-> IF idx.tag.Name = "" THEN fieldInfo.Field ELSE idx.tag.Name]>>
    IN  [err |-> FALSE,
         fieldInfo |-> [fieldInfo EXCEPT !.FsTag = fs, !.Indexes = indexes],
         dupMap |-> (fieldInfo.FsTag :> n) @@ dm]

-----------------------------------------------------------------------------
(***************************************************************************)
(* parseTypeImpl, lines 225-232: the entries of the object are collected   *)
(* in the iteration order of the Entries map (any order) and sorted by     *)
(* FieldIndex.                                                             *)
(***************************************************************************)
\* less without the comparison: the entries stay in map order.
lessNever(a, b) == FALSE

less(a, b) == a.FieldIndex < b.FieldIndex

RECURSIVE insertEntry(_, _)
insertEntry(e, sorted) ==
    IF sorted = <<>> THEN <<e>>
    ELSE IF less(e, sorted[Len(sorted)]) 
         THEN Append(insertEntry(e, SubSeq(sorted, 1, Len(sorted) - 1)), sorted[Len(sorted)])
         ELSE Append(sorted, e)

RECURSIVE sortSlice(_)
sortSlice(s) ==
    IF s = <<>> THEN <<>>
    ELSE insertEntry(s[Len(s)], sortSlice(SubSeq(s, 1, Len(s) - 1)))

\* The orders in which ranging over the Entries map can deliver the entries.
MapOrders(entries) ==
    {s \in [1..Cardinality(entries) -> entries] :
        \A i, j \in DOMAIN s : i # j => s[i] # s[j]}

Frame(rawKey, firestoreKey, order, nullableFields) ==
    [entries |-> sortSlice(order), i |-> 1, rawKey |-> rawKey,
     firestoreKey |-> firestoreKey, nullableFields |-> nullableFields]

-----------------------------------------------------------------------------
(***************************************************************************)
(* The generator's state.                                                  *)
(***************************************************************************)
ZeroParam ==
    [MetaFieldsEnabled |-> FALSE, EnableIndexes |-> FALSE, FieldInfoForIndexes |-> <<>>,
     FieldInfos |-> <<>>, UniqueInfos |-> <<>>,
     KeyFieldName |-> "", KeyFieldType |-> "", KeyValueName |-> "",
     AutomaticGeneration |-> FALSE, UseLo |-> FALSE, SliceExist |-> FALSE]

Top == stack[Len(stack)]
InLoop == pc = "parseType" /\ stack # <<>> /\ Top.i <= Len(Top.entries)
entry == Top.entries[Top.i]
typeName == getGoTypeFromEPTypes(entry.Type)
fieldRawKey == JoinKey(Top.rawKey, entry.RawName)
parsed == Parse(entry.RawTag)
tags == parsed.tags
fsTagGet == Get(tags, "firestore")
fieldFirestoreKey ==
    IF fsTagGet.err THEN JoinKey(Top.firestoreKey, entry.RawName)
    ELSE JoinKey(Top.firestoreKey, fsTagGet.tag.Name)

\* Line 281-283: a field that is not a nested record and whose type name
\* starts with "[]" sets SliceExist.
paramSlice == [param EXCEPT !.SliceExist = @ \/ HasSlicePrefix(entry.Type)]

IsIndexesField == Top.rawKey = "" /\ entry.RawName = "Indexes" /\ typeName = typeBoolMap

Continue == stack' = [stack EXCEPT ![Len(stack)].i = @ + 1]

\* An error return: every caller wraps the error and returns it.
Fail(e, p) ==
    /\ pc' = "done"
    /\ err' = e
    /\ stack' = <<>>
    /\ param' = p

-----------------------------------------------------------------------------
(***************************************************************************)
(* The input universe: the type trees the type inspector can hand over.    *)
(* Field names are unique within a struct and FieldIndex is the position   *)
(* of the field in its struct.                                             *)
(***************************************************************************)
Entry(name, type, rawTag) ==
    [RawName |-> name, FieldIndex |-> 0, Type |-> type, RawTag |-> rawTag]

Fs(name) == Tag("firestore", name, <<>>)
FsKey(value) == Tag("firestore_key", value, <<>>)
Unique == Tag("unique", "", <<>>)

\* The entries of a struct whose fields are declared in the order of s.
Fields(s) == {[s[i] EXCEPT !.FieldIndex = i - 1] : i \in DOMAIN s}

\* The declarations of 1..n fields over S, no field name twice.
Declarations(S, n) ==
    UNION {{s \in [1..k -> S] : \A i, j \in 1..k : i # j => s[i].RawName # s[j].RawName} : k \in 1..n}

FlatLeaves ==
    {Entry("Name", PrimT("string"), RawTag(<<Fs("name")>>)),
     Entry("ID", PrimT("string"), RawTag(<<Fs("-"), FsKey("auto")>>)),
     Entry("Key", PrimT("string"), RawTag(<<Fs("-"), FsKey("")>>)),
     Entry("ID", PrimT("string"), RawTag(<<Fs("-"), FsKey("manual")>>)),
     Entry("Key", PrimT("string"), RawTag(<<FsKey("")>>)),
     Entry("ID", PrimT("int"), RawTag(<<Fs("-"), FsKey("auto")>>)),
     Entry("Key", PrimT("string"), RawTag(<<Fs("id"), FsKey("auto")>>)),
     Entry("Indexes", PrimT(typeBoolMap), NoTag),
     Entry("Indexes", PrimT(typeBoolMap), RawTag(<<Fs("idx")>>)),
     Entry("Indexes", PrimT(typeBoolMap), RawTag(<<Fs("idx"), FsKey("")>>)),
     Entry("Indexes", PrimT("string"), NoTag),
     Entry("Status", PrimT("string"), RawTag(<<Fs("status"), Unique>>)),
     Entry("State", PrimT("string"), RawTag(<<Fs("status"), Unique>>)),
     Entry("Count", PrimT("int"), RawTag(<<Fs("count"), Unique>>)),
     Entry("Hidden", PrimT("int"), RawTag(<<Fs("-"), Unique>>)),
     Entry("Tags", SliceT("string"), NoTag),
     Entry("Bad", PrimT("string"), MalformedTag),
     Entry("Opt", PrimT("string"), RawTag(<<Tag("firestore", "", <<"omitempty">>)>>)),
     Entry("Memo", PrimT("string"), RawTag(<<Tag("json", "memo", <<>>)>>)),
     Entry("DeletedAt", PtrT("time.Time"), NoTag)}

FlatTrees == {ObjectT(Fields(s)) : s \in Declarations(FlatLeaves, MaxTop)}

\* Trees with one nested record at the top level, between optional siblings.
NestLeaves ==
    {Entry("City", PrimT("string"), RawTag(<<Fs("city")>>)),
     Entry("Zip", PrimT("int"), RawTag(<<Fs("zip"), Unique>>)),
     Entry("Indexes", PrimT(typeBoolMap), NoTag),
     Entry("ID", PrimT("string"), RawTag(<<Fs("-"), FsKey("")>>)),
     Entry("Status", PrimT("string"), RawTag(<<Fs("status"), Unique>>))}

NestObjects == {Fields(s) : s \in Declarations(NestLeaves, MaxNest)}

NestFields ==
    UNION {{Entry("Sub", ObjectT(o), NoTag),
            Entry("Opt", NullableT(o), NoTag),
            Entry("Addr", ObjectT(o), RawTag(<<Fs("addr")>>)),
            Entry("PAddr", NullableT(o), RawTag(<<Tag("firestore", "", <<"omitempty">>)>>)),
            Entry("BadSub", ObjectT(o), MalformedTag),
            Entry("USub", NullableT(o), RawTag(<<Unique>>)),
            Entry("KSub", ObjectT(o), RawTag(<<Fs("-"), FsKey("")>>))} : o \in NestObjects}

Siblings ==
    {Entry("Name", PrimT("string"), RawTag(<<Fs("name")>>)),
     Entry("Status", PrimT("string"), RawTag(<<Fs("status")>>)),
     Entry("Key", PrimT("string"), RawTag(<<Fs("-"), FsKey("auto")>>))}

Around(S) == {<<>>} \cup {<<x>> : x \in S}

DistinctNames(s) == \A i, j \in DOMAIN s : i # j => s[i].RawName # s[j].RawName

NestTrees ==
    {ObjectT(Fields(s)) :
        s \in {d \in {pre \o <<n>> \o post :
                        pre \in Around(Siblings), n \in NestFields, post \in Around(Siblings)} :
                 DistinctNames(d)}}

\* Deep trees: records nested five levels, each level optional or not.
Leaf(name) == Entry(name, PrimT("string"), NoTag)
Wrap(name, nullable, s) ==
    Entry(name, IF nullable THEN NullableT(Fields(s)) ELSE ObjectT(Fields(s)), NoTag)

DeepTrees ==
    {ObjectT(Fields(
        <<Wrap("A", b[1],
            <<Wrap("B", b[2],
                <<Wrap("C", b[3],
                    <<Wrap("D", b[4], <<Wrap("E", b[5], <<Leaf("X")>>)>>),
                      Wrap("F", b[6], <<Leaf("Y")>>),
                      Leaf("Z")>>)>>),
              Leaf("W")>>)>>)) : b \in [1..6 -> BOOLEAN]}

\* The types of the repository's test files.
HttpStatus ==
    ObjectT(Fields(<<Entry("ID", PrimT("string"), RawTag(<<Fs("-"), FsKey("auto")>>)),
                     Entry("Status", PrimT("string"), RawTag(<<Fs("status")>>))>>))

Trees == FlatTrees \cup NestTrees \cup DeepTrees \cup {HttpStatus}

\* Top-level field lists over the reserved bookkeeping names: each name is
\* absent, declared with its expected type, or declared with another type.
MetaNames == <<"CreatedAt", "CreatedBy", "UpdatedAt", "UpdatedBy", "DeletedAt", "DeletedBy", "Version">>

MetaType(n) ==
    CASE n \in {"CreatedAt", "UpdatedAt"} -> PrimT("time.Time")
      [] n = "DeletedAt" -> PtrT("time.Time")
      [] n = "Version" -> PrimT("int")
      [] OTHER -> PrimT("string")

WrongType(n) == IF n = "DeletedAt" THEN PrimT("time.Time") ELSE PrimT("bool")

MetaTrees ==
    {ObjectT({[Entry(MetaNames[i], IF c[i] = "ok" THEN MetaType(MetaNames[i]) ELSE WrongType(MetaNames[i]), NoTag)
                  EXCEPT !.FieldIndex = i] : i \in {k \in 1..7 : c[k] # "absent"}}
             \cup Fields(<<Entry("Name", PrimT("string"), RawTag(<<Fs("name")>>))>>)) :
        c \in [1..7 -> {"absent", "ok", "wrong"}]}

-----------------------------------------------------------------------------
(***************************************************************************)
(* Initial states: a type tree and the options; no generator yet.          *)
(***************************************************************************)
Fresh ==
    /\ pc = "new"
    /\ err = ""
    /\ param = ZeroParam
    /\ dupMap = <<>>
    /\ stack = <<>>
    /\ heap = <<>>
    /\ prev = <<>>

Init ==
    /\ typ \in Trees
    /\ opt = [DisableMetaFieldsDetection |-> FALSE]
    /\ Fresh

InitMeta ==
    /\ typ \in MetaTrees
    /\ opt \in [DisableMetaFieldsDetection : BOOLEAN]
    /\ Fresh

(***************************************************************************)
(* newStructGenerator: the generator starts with an empty dupMap and the   *)
(* zero templateParameter; hasMetaFields decides MetaFieldsEnabled unless  *)
(* detection is disabled, and its error ends the construction.  The file   *)
(* name, package and import path bookkeeping is not kept.                  *)
(***************************************************************************)
NewStructGenerator ==
    /\ pc = "new"
    /\ LET r == IF opt.DisableMetaFieldsDetection THEN [has |-> FALSE, err |-> FALSE]
                ELSE hasMetaFields(typ)
       IN  IF r.err
           THEN /\ pc' = "done"
                /\ err' = "meta fields are incomplete"
                /\ param' = param
           ELSE /\ pc' = "constructed"
                /\ err' = err
                /\ param' = [param EXCEPT !.MetaFieldsEnabled = r.has]
    /\ dupMap' = <<>>
    /\ UNCHANGED <<typ, opt, stack, heap, prev>>

(***************************************************************************)
(* parseType: the call parseTypeImpl("", "", g.typ, []string{}).           *)
(***************************************************************************)
ParseType ==
    /\ pc = "constructed"
    /\ \E order \in MapOrders(typ.entries) :
           stack' = <<Frame("", "", order, EmptySlice)>>
    /\ pc' = "parseType"
    /\ UNCHANGED <<typ, opt, err, param, dupMap, heap, prev>>

\* SkipMalformedTag with the parse error returned instead of logged.
ReturnMalformedTag ==
    /\ InLoop
    /\ parsed.err
    /\ Fail("tag does not parse", param)
    /\ UNCHANGED <<typ, opt, dupMap, heap, prev>>

(***************************************************************************)
(* Lines 241-248: the tag of the entry does not parse; the entry is logged *)
(* and the loop continues with the next one.                               *)
(***************************************************************************)
SkipMalformedTag ==
    /\ InLoop
    /\ parsed.err
    /\ Continue
    /\ UNCHANGED <<typ, opt, pc, err, param, dupMap, heap, prev>>

(***************************************************************************)
(* Lines 257-279: a nested record.  An optional one sets UseLo and appends *)
(* its path to the frame's own nullableFields; the walk then descends with *)
(* the frame's nullableFields.  The frame's index is advanced here: it is  *)
(* where the loop continues when the call returns without an error.        *)
(***************************************************************************)
DescendNested ==
    /\ InLoop
    /\ ~parsed.err
    /\ isNestedStruct(entry.Type)
    /\ LET isNullable == entry.Type.ptr
           app == IF isNullable THEN SliceAppend(heap, Top.nullableFields, fieldRawKey)
                  ELSE [heap |-> heap, slice |-> Top.nullableFields]
       IN  /\ heap' = app.heap
           /\ param' = [param EXCEPT !.UseLo = @ \/ isNullable]
           /\ \E order \in MapOrders(entry.Type.entries) :
                  stack' = Append([stack EXCEPT ![Len(stack)].i = @ + 1,
                                                ![Len(stack)].nullableFields = app.slice],
                                  Frame(fieldRawKey, fieldFirestoreKey, order, app.slice))
    /\ UNCHANGED <<typ, opt, pc, err, dupMap, prev>>

(***************************************************************************)
(* Lines 285-287: an omitted field.                                        *)
(***************************************************************************)
SkipIgnoredField ==
    /\ InLoop
    /\ ~parsed.err
    /\ ~isNestedStruct(entry.Type)
    /\ isIgnoredField(tags)
    /\ param' = paramSlice
    /\ Continue
    /\ UNCHANGED <<typ, opt, pc, err, dupMap, heap, prev>>

(***************************************************************************)
(* Lines 289-295 and parseIndexesField: the top-level Indexes field of     *)
(* type map[string]bool.                                                   *)
(***************************************************************************)
parseIndexesField(p, tgs) ==
    LET v == validateFirestoreTag(tgs)
        fieldInfo == [FsTag |-> IF ~v.err /\ v.tag # "" THEN v.tag ELSE "Indexes",
                      Field |-> "Indexes", FieldType |-> typeBoolMap]
    IN  [err |-> v.err,
         param |-> IF v.err THEN [p EXCEPT !.EnableIndexes = TRUE]
                   ELSE [p EXCEPT !.EnableIndexes = TRUE, !.FieldInfoForIndexes = <<fieldInfo>>]]

ParseIndexesField ==
    /\ InLoop
    /\ ~parsed.err
    /\ ~isNestedStruct(entry.Type)
    /\ ~isIgnoredField(tags)
    /\ IsIndexesField
    /\ LET r == parseIndexesField(paramSlice, tags)
       IN  IF r.err
           THEN Fail("firestore tag is invalid", r.param)
           ELSE /\ param' = r.param
                /\ Continue
                /\ UNCHANGED <<pc, err>>
    /\ UNCHANGED <<typ, opt, dupMap, heap, prev>>

(***************************************************************************)
(* Lines 297-310: a field without any tag.                                 *)
(***************************************************************************)
IsOrdinaryRoute ==
    /\ InLoop
    /\ ~parsed.err
    /\ ~isNestedStruct(entry.Type)
    /\ ~isIgnoredField(tags)
    /\ ~IsIndexesField

AppendUntaggedField ==
    /\ IsOrdinaryRoute
    /\ entry.RawTag = NoTag
    /\ LET fieldInfo == FieldInfo(fieldFirestoreKey, fieldRawKey, typeName, Top.nullableFields)
           r == appendIndexer(<<>>, Top.firestoreKey, fieldInfo, dupMap)
       IN  IF r.err
           THEN Fail("appendIndexer", paramSlice) /\ dupMap' = dupMap
           ELSE /\ param' = [paramSlice EXCEPT !.FieldInfos = Append(@, r.fieldInfo)]
                /\ dupMap' = r.dupMap
                /\ Continue
                /\ UNCHANGED <<pc, err>>
    /\ UNCHANGED <<typ, opt, heap, prev>>

(***************************************************************************)
(* Lines 312-340: a tagged field without a firestore_key tag.  With a      *)
(* unique tag the type must be string; the UniqueInfo is built from the    *)
(* FieldInfo as it is before appendIndexer is called.                      *)
(***************************************************************************)
\* uniqueSupported without the type check.
uniqueSupportedAny(name) == TRUE

uniqueSupported(name) == name = typeString

AppendOrdinaryField ==
    /\ IsOrdinaryRoute
    /\ entry.RawTag # NoTag
    /\ Get(tags, "firestore_key").err
    /\ LET fieldInfo == FieldInfo(fieldFirestoreKey, fieldRawKey, typeName, Top.nullableFields)
           hasUnique == ~Get(tags, "unique").err
           fieldInfoU == [fieldInfo EXCEPT !.IsUnique = hasUnique]
           paramU == IF hasUnique
                     THEN [paramSlice EXCEPT !.UniqueInfos =
                              Append(@, UniqueInfo(fieldInfoU.Field, fieldInfoU.FsTag))]
                     ELSE paramSlice
           r == appendIndexer(tags, Top.firestoreKey, fieldInfoU, dupMap)
       IN  IF hasUnique /\ ~uniqueSupported(typeName)
           THEN Fail("The only field type that uses the unique tag is a string", paramSlice)
                /\ dupMap' = dupMap
           ELSE IF r.err
           THEN Fail("appendIndexer", paramU) /\ dupMap' = dupMap
           ELSE /\ param' = [paramU EXCEPT !.FieldInfos = Append(@, r.fieldInfo)]
                /\ dupMap' = r.dupMap
                /\ Continue
                /\ UNCHANGED <<pc, err>>
    /\ UNCHANGED <<typ, opt, heap, prev>>

(***************************************************************************)
(* Lines 342-373: a field with a firestore_key tag.                        *)
(***************************************************************************)
ParseKeyField ==
    /\ IsOrdinaryRoute
    /\ entry.RawTag # NoTag
    /\ ~Get(tags, "firestore_key").err
    /\ LET value == Value(Get(tags, "firestore_key").tag)
           p1 == IF value = "auto" THEN [paramSlice EXCEPT !.AutomaticGeneration = TRUE]
                 ELSE paramSlice
           p2 == [p1 EXCEPT !.KeyFieldName = entry.RawName, !.KeyFieldType = typeName]
           fieldInfo == [FieldInfo("", JoinKey(Top.rawKey, entry.RawName), typeName, Top.nullableFields)
                            EXCEPT !.IsDocumentID = TRUE]
           p3 == [p2 EXCEPT !.KeyValueName = ToLowerCamel(entry.RawName),
                            !.FieldInfos = Append(@, fieldInfo)]
       IN  IF value \notin {"", "auto"}
           THEN Fail("The contents of the firestore_key tag should be empty or auto", paramSlice)
           ELSE IF fsTagGet.err \/ fsTagGet.tag.Name # "-"
           THEN Fail("key field for firestore should have firestore:- tag", p1)
           ELSE IF p2.KeyFieldType # typeString
           THEN Fail("supported key types are string", p2)
           ELSE /\ param' = p3
                /\ Continue
                /\ UNCHANGED <<pc, err>>
    /\ UNCHANGED <<typ, opt, dupMap, heap, prev>>

(***************************************************************************)
(* Line 375: the loop of a frame is over; parseTypeImpl returns nil.  The  *)
(* return of the outermost frame is the return of parseType.               *)
(***************************************************************************)
ReturnFrame ==
    /\ pc = "parseType"
    /\ stack # <<>>
    /\ Top.i > Len(Top.entries)
    /\ stack' = SubSeq(stack, 1, Len(stack) - 1)
    /\ pc' = IF Len(stack) = 1 THEN "done" ELSE pc
    /\ UNCHANGED <<typ, opt, err, param, dupMap, heap, prev>>

\* What a finished run hands over: the error, and the parameter with every
\* NullableFields slice read out of its backing array.
ReadFieldInfos(h, fis) == [i \in DOMAIN fis |-> [fis[i] EXCEPT !.NullableFields = SliceRead(h, @)]]
Output == [err |-> err, param |-> [param EXCEPT !.FieldInfos = ReadFieldInfos(heap, @)]]

(***************************************************************************)
(* The generator is run once more on the same, unchanged type: a new       *)
(* structGenerator is built; the output of the first run is remembered.    *)
(***************************************************************************)
Regenerate ==
    /\ pc = "done"
    /\ prev = <<>>
    /\ prev' = <<Output>>
    /\ pc' = "new"
    /\ err' = ""
    /\ param' = ZeroParam
    /\ dupMap' = <<>>
    /\ stack' = <<>>
    /\ heap' = <<>>
    /\ UNCHANGED <<typ, opt>>

Next ==
    \/ NewStructGenerator
    \/ ParseType
    \/ SkipMalformedTag
    \/ DescendNested
    \/ SkipIgnoredField
    \/ ParseIndexesField
    \/ AppendUntaggedField
    \/ AppendOrdinaryField
    \/ ParseKeyField
    \/ ReturnFrame

Spec == Init /\ [][Next]_vars

NextTwice == Next \/ Regenerate

SpecTwice == Init /\ [][NextTwice]_vars

SpecMeta == InitMeta /\ [][NewStructGenerator]_vars

-----------------------------------------------------------------------------
(***************************************************************************)
(* Reading the type tree: every field of the tree in depth-first           *)
(* declaration order, with its logical path, the storage path the          *)
(* specification gives it, its optional ancestors and whether it or an     *)
(* ancestor has a tag that does not parse.                                 *)
(***************************************************************************)
Dot(a, b) == IF a = "" THEN b ELSE IF b = "" THEN a ELSE a \o "." \o b

ByIndex(entries) ==
    CHOOSE s \in MapOrders(entries) : \A i, j \in DOMAIN s : i < j => s[i].FieldIndex < s[j].FieldIndex

HasDirective(e, key) == e.RawTag.ok /\ \E i \in DOMAIN e.RawTag.tags : e.RawTag.tags[i].Key = key

Directive(e, key) ==
    e.RawTag.tags[CHOOSE i \in DOMAIN e.RawTag.tags :
                     /\ e.RawTag.tags[i].Key = key
                     /\ \A j \in 1..(i - 1) : e.RawTag.tags[j].Key # key]

StorageSegment(e) ==
    IF HasDirective(e, "firestore") /\ Directive(e, "firestore").Name # ""
    THEN Directive(e, "firestore").Name
    ELSE e.RawName

RECURSIVE NodesFrom(_, _, _, _, _, _, _)
NodesFrom(s, i, rawKey, fsKey, opts, dropped, depth) ==
    IF i > Len(s) THEN <<>>
    ELSE LET e == s[i]
             path == Dot(rawKey, e.RawName)
             storage == Dot(fsKey, StorageSegment(e))
             bad == dropped \/ ~e.RawTag.ok
             node == [e |-> e, path |-> path, storage |-> storage, opts |-> opts,
                      dropped |-> bad, depth |-> depth]
             below == IF e.Type.kind = "object"
                      THEN NodesFrom(ByIndex(e.Type.entries), 1, path, storage,
                                     IF e.Type.ptr THEN Append(opts, path) ELSE opts,
                                     bad, depth + 1)
                      ELSE <<>>
         IN  <<node>> \o below \o NodesFrom(s, i + 1, rawKey, fsKey, opts, dropped, depth)

TreeNodes == NodesFrom(ByIndex(typ.entries), 1, "", "", <<>>, FALSE, 0)

IsRecordNode(n) == n.e.Type.kind = "object"
IsOmitted(e) ==
    /\ HasDirective(e, "firestore")
    /\ Directive(e, "firestore").Name = "-"
    /\ ~HasDirective(e, "firestore_key")
IsRegistryShape(n) ==
    /\ n.depth = 0
    /\ n.e.RawName = "Indexes"
    /\ n.e.Type = PrimT("map[string]bool")

\* The fields parseTypeImpl gives a FieldInfo when the walk succeeds.
IsEmitted(n) ==
    /\ ~n.dropped
    /\ ~IsRecordNode(n)
    /\ ~IsOmitted(n.e)
    /\ ~IsRegistryShape(n)

Succeeded == pc = "done" /\ err = ""

SelectNodes(s, P(_)) ==
    LET F[i \in 0..Len(s)] ==
            IF i = 0 THEN <<>> ELSE IF P(s[i]) THEN Append(F[i - 1], s[i]) ELSE F[i - 1]
    IN  F[Len(s)]

NodeSet(P(_)) == {i \in DOMAIN TreeNodes : P(TreeNodes[i])}
NodeAt(path) == TreeNodes[CHOOSE i \in DOMAIN TreeNodes : TreeNodes[i].path = path]
Emitted == Output.param.FieldInfos

-----------------------------------------------------------------------------
\* A field whose identifier directive is valid on its own: string type,
\* firestore:"-", firestore_key "" or "auto", on a field the walk reaches.
IsValidIdentifier(n) ==
    /\ ~n.dropped
    /\ n.e.Type = PrimT("string")
    /\ HasDirective(n.e, "firestore_key")
    /\ Directive(n.e, "firestore_key").Options = <<>>
    /\ Directive(n.e, "firestore_key").Name \in {"", "auto"}
    /\ HasDirective(n.e, "firestore")
    /\ Directive(n.e, "firestore").Name = "-"

\* C1: a tree with two or more individually valid identifier fields is
\* never parsed successfully: parseType fails at the second one, so a
\* successful parseType saw at most one.
C1_SecondIdentifierRejected ==
    Succeeded => Cardinality(NodeSet(IsValidIdentifier)) <= 1

\* C4: after a successful parseType the NullableFields of every emitted
\* FieldInfo is exactly the list, outermost first, of the logical paths of
\* the optional nested records that are ancestors of the field.
C4_NullableFieldsAreOptionalAncestors ==
    Succeeded =>
        \A i \in DOMAIN Emitted : Emitted[i].NullableFields = NodeAt(Emitted[i].Field).opts

\* C6: after a successful parseType no two ordinary entries of FieldInfos
\* and no two entries of UniqueInfos carry the same FsTag.
C6_StorageNamesNeverDuplicated ==
    Succeeded =>
        /\ \A i, j \in DOMAIN Emitted :
               (i # j /\ ~Emitted[i].IsDocumentID /\ ~Emitted[j].IsDocumentID)
                   => Emitted[i].FsTag # Emitted[j].FsTag
        /\ \A i, j \in DOMAIN param.UniqueInfos :
               i # j => param.UniqueInfos[i].FsTag # param.UniqueInfos[j].FsTag

\* C8: index support is enabled only by a top-level Indexes field of type
\* map[string]bool that is not omitted and carries no identifier directive;
\* such a field with an identifier directive is handled as an identifier
\* field, and a successful parseType has then not enabled index support.
IsRegistryField(n) ==
    /\ IsRegistryShape(n)
    /\ ~n.dropped
    /\ ~IsOmitted(n.e)
    /\ ~HasDirective(n.e, "firestore_key")

C8_RegistryRoutingExcludesIdentifier ==
    Succeeded => (param.EnableIndexes <=> NodeSet(IsRegistryField) # {})

\* C10: the FsTag of every ordinary FieldInfo is the dot-join, along the
\* path from the root, of the storage directive name of each field that has
\* one and of the field name otherwise (followed by the numeric suffix when
\* the storage name was handed out before); it is never built from an empty
\* directive name.
Suffixed(name) == {name} \cup {name \o ToString(k) : k \in 2..(Len(param.FieldInfos) + 1)}

C10_FsTagIsJoinOfStorageNames ==
    Succeeded =>
        \A i \in DOMAIN Emitted :
            ~Emitted[i].IsDocumentID =>
                Emitted[i].FsTag \in Suffixed(NodeAt(Emitted[i].Field).storage)

\* C5, for a field that reaches the identifier branch (lines 312-373): the
\* step on a field with a firestore_key tag fails when the value is neither
\* "" nor "auto", when the firestore tag is missing or not "-", or when the
\* type is not string; otherwise it succeeds, records the field name, the
\* type string and automatic generation exactly when the value is "auto",
\* and appends one FieldInfo with IsDocumentID for the field's path.
IsKeyFieldStep == IsOrdinaryRoute /\ ~Get(tags, "firestore_key").err

KeyFieldInvalid ==
    \/ Value(Get(tags, "firestore_key").tag) \notin {"", "auto"}
    \/ fsTagGet.err
    \/ fsTagGet.tag.Name # "-"
    \/ entry.Type # PrimT("string")

C5_IdentifierFieldValidation ==
    [][IsKeyFieldStep =>
          IF KeyFieldInvalid
          THEN pc' = "done" /\ err' # ""
          ELSE /\ err' = "" /\ pc' = "parseType"
               /\ param'.KeyFieldName = entry.RawName
               /\ param'.KeyFieldType = "string"
               /\ param'.AutomaticGeneration = (Value(Get(tags, "firestore_key").tag) = "auto")
               /\ Len(param'.FieldInfos) = Len(param.FieldInfos) + 1
               /\ param'.FieldInfos[Len(param'.FieldInfos)].IsDocumentID
               /\ param'.FieldInfos[Len(param'.FieldInfos)].Field = Dot(Top.rawKey, entry.RawName)]_vars

-----------------------------------------------------------------------------
\* The reserved bookkeeping names the type declares, and those it declares
\* with the required type.
Reserved == {MetaNames[i] : i \in DOMAIN MetaNames}
PresentReserved == {e.RawName : e \in typ.entries} \cap Reserved
WellTypedReserved == {n \in Reserved : \E e \in typ.entries : e.RawName = n /\ e.Type = MetaType(n)}
Detected == pc # "new" /\ ~opt.DisableMetaFieldsDetection
MetaResult(has, failed) ==
    IF failed THEN pc = "done" /\ err = "meta fields are incomplete"
    ELSE pc = "constructed" /\ err = "" /\ param.MetaFieldsEnabled = has

\* C2 as stated: all seven well typed gives true; none of the names present
\* gives false; any of the names present without the full well-typed set
\* gives the incomplete-meta-fields error.
C2_AnyReservedNameMakesPartialSetFail ==
    Detected =>
        /\ WellTypedReserved = Reserved => MetaResult(TRUE, FALSE)
        /\ PresentReserved = {} => MetaResult(FALSE, FALSE)
        /\ (PresentReserved # {} /\ WellTypedReserved # Reserved) => MetaResult(FALSE, TRUE)

\* C2 amended: all seven well typed gives true; no reserved name declared
\* with its required type (none present, or every present one mistyped)
\* gives false without an error; at least one but not all seven declared
\* with the required type gives the incomplete-meta-fields error.
C2_WellTypedPartialSetFails ==
    Detected =>
        /\ WellTypedReserved = Reserved => MetaResult(TRUE, FALSE)
        /\ WellTypedReserved = {} => MetaResult(FALSE, FALSE)
        /\ (WellTypedReserved # {} /\ WellTypedReserved # Reserved) => MetaResult(FALSE, TRUE)

\* A type whose reserved fields are all mistyped was accepted as a type
\* without meta fields.
C2_Witness ==
    /\ Detected
    /\ PresentReserved # {}
    /\ WellTypedReserved = {}
    /\ pc = "constructed"
    /\ ~param.MetaFieldsEnabled

-----------------------------------------------------------------------------
UniqueError == "The only field type that uses the unique tag is a string"

IsUniqueNonString(n) == HasDirective(n.e, "unique") /\ n.e.Type # PrimT("string")

\* C3 as stated: a tree in which some field that is not a string carries a
\* unique tag, whatever else it carries and whether leaf or nested record,
\* is never parsed successfully.
C3_UniqueNonStringAlwaysFails ==
    Succeeded => NodeSet(IsUniqueNonString) = {}

IsOrdinaryUniqueNonString(n) ==
    /\ IsUniqueNonString(n)
    /\ IsEmitted(n)
    /\ ~HasDirective(n.e, "firestore_key")

IsUniqueNonStringStep ==
    /\ IsOrdinaryRoute
    /\ Get(tags, "firestore_key").err
    /\ ~Get(tags, "unique").err
    /\ entry.Type # PrimT("string")

\* C3 amended: a unique tag on a field that is not a string makes parseType
\* fail when the field is handled as an ordinary field, that is when its tag
\* parses, it is not a nested record, it is not omitted by firestore:"-", it
\* is not the top-level Indexes map[string]bool field, it carries no
\* firestore_key tag and no enclosing record has a tag that fails to parse;
\* the step that reaches the field returns the unique-type error, at any
\* depth.
C3_OrdinaryUniqueNonStringFails ==
    /\ [](pc = "done" /\ NodeSet(IsOrdinaryUniqueNonString) # {} => err # "")
    /\ [][IsUniqueNonStringStep => (pc' = "done" /\ err' = UniqueError)]_vars

\* parseType failed with the unique-type error on a field below the top
\* level.
C3_Witness ==
    /\ pc = "done"
    /\ err = UniqueError
    /\ \E i \in DOMAIN TreeNodes :
           IsOrdinaryUniqueNonString(TreeNodes[i]) /\ TreeNodes[i].depth > 0

-----------------------------------------------------------------------------
IsMalformedStep == InLoop /\ ~entry.RawTag.ok

Skipped ==
    /\ pc' = pc /\ err' = err /\ param' = param /\ dupMap' = dupMap /\ heap' = heap
    /\ Len(stack') = Len(stack)
    /\ stack'[Len(stack)] = [Top EXCEPT !.i = Top.i + 1]

\* C7 as stated: a tag that fails to parse drops only that field without an
\* error and without any other effect, and when the field is a nested
\* record the walk still descends into its entries.
C7_MalformedRecordStillDescended ==
    [][IsMalformedStep =>
          IF entry.Type.kind = "object"
          THEN pc' = pc /\ err' = err /\ Len(stack') = Len(stack) + 1
          ELSE Skipped]_vars

\* C7 amended: a tag that fails to parse is no error; the field is dropped,
\* together with all its entries when it is a nested record (the walk does
\* not descend), and the step has no other effect, so every other field is
\* processed as if the dropped field were absent.
C7_MalformedFieldDroppedWhole ==
    [][IsMalformedStep => Skipped]_vars

\* A successful parseType on a tree with a nested record whose tag does not
\* parse: a well-tagged leaf of that record has no FieldInfo.
C7_Witness ==
    /\ Succeeded
    /\ \E i \in DOMAIN TreeNodes :
           /\ TreeNodes[i].dropped
           /\ TreeNodes[i].e.RawTag.ok
           /\ TreeNodes[i].depth > 0
           /\ \A k \in DOMAIN Emitted : Emitted[k].Field # TreeNodes[i].path

-----------------------------------------------------------------------------
PathsOf(s) == [i \in DOMAIN s |-> s[i].path]
FieldsOf(s) == [i \in DOMAIN s |-> s[i].Field]

IsUniqueEmitted(n) ==
    IsEmitted(n) /\ HasDirective(n.e, "unique") /\ ~HasDirective(n.e, "firestore_key")

\* C9: after a successful parseType FieldInfos lists the emitted fields in
\* depth-first declaration order (increasing FieldIndex at every level, the
\* leaves of a nested record in the place of the record, no entry for the
\* record itself), UniqueInfos likewise, and a second run of the generator
\* on the same type gives the same output as the first.
C9_DeclarationOrderAndRepeatable ==
    /\ Succeeded =>
          /\ FieldsOf(Emitted) = PathsOf(SelectNodes(TreeNodes, IsEmitted))
          /\ FieldsOf(param.UniqueInfos) = PathsOf(SelectNodes(TreeNodes, IsUniqueEmitted))
    /\ (pc = "done" /\ prev # <<>>) => Output = prev[1]

\* A second successful run over a tree with a nested record and at least
\* three emitted fields.
C9_Witness ==
    /\ Succeeded
    /\ prev # <<>>
    /\ Len(Emitted) >= 3
    /\ \E i \in DOMAIN TreeNodes : IsEmitted(TreeNodes[i]) /\ TreeNodes[i].depth > 0

=============================================================================
